---- MODULE Spec2Model ----
(***************************************************************************)
(* TwitterApiClient (src/src/services/twitter/apiClient.ts): the           *)
(* fetchTweets request lifecycle, handleError's classification of error    *)
(* messages, and the processResponse transform.                            *)
(*                                                                         *)
(* JavaScript strings that the code inspects (trim, includes, template     *)
(* literals) are sequences of one-character strings.  Thrown values carry  *)
(* an allocation identity `id`, so that "the same error object" is         *)
(* distinguishable from an equal-looking copy.                             *)
(***************************************************************************)
EXTENDS Integers, Sequences, FiniteSets

(* ------------------------------ bounds --------------------------------- *)

\* number of fetchTweets invocations that may be in flight on the one client
NumCalls == 2

\* number of direct handleError calls a caller makes
MaxHandleCalls == 2

\* longest `data` array handed to processResponse
MaxData == 3

Calls == 1..NumCalls

(* --------------------------- string helpers ---------------------------- *)

Digits == <<"0", "1", "2", "3", "4", "5", "6", "7", "8", "9">>

Whitespace == {" ", "\t", "\n"}

RECURSIVE TrimStart(_)
TrimStart(s) ==
    IF s # <<>> /\ Head(s) \in Whitespace THEN TrimStart(Tail(s)) ELSE s

RECURSIVE TrimEnd(_)
TrimEnd(s) ==
    IF s # <<>> /\ s[Len(s)] \in Whitespace
    THEN TrimEnd(SubSeq(s, 1, Len(s) - 1))
    ELSE s

\* String.prototype.trim
Trim(s) == TrimEnd(TrimStart(s))

\* String.prototype.includes
Includes(s, sub) ==
    \E i \in 0..(Len(s) - Len(sub)) : SubSeq(s, i + 1, i + Len(sub)) = sub

RECURSIVE NatToString(_)
NatToString(n) ==
    IF n < 10 THEN <<Digits[n + 1]>>
    ELSE NatToString(n \div 10) \o <<Digits[(n % 10) + 1]>>

\* Number.prototype.toString / template-literal conversion of an integer
NumToString(n) == IF n < 0 THEN <<"-">> \o NatToString(-n) ELSE NatToString(n)

(* ------------------------------ literals ------------------------------- *)

QueryRequiredMsg ==
    <<"Q", "u", "e", "r", "y", " ", "p", "a", "r", "a", "m", "e", "t", "e",
      "r", " ", "i", "s", " ", "r", "e", "q", "u", "i", "r", "e", "d">>

LimitPositiveMsg ==
    <<"L", "i", "m", "i", "t", " ", "m", "u", "s", "t", " ", "b", "e", " ",
      "a", " ", "p", "o", "s", "i", "t", "i", "v", "e", " ", "i", "n", "t",
      "e", "g", "e", "r">>

ApiErrorPrefix ==
    <<"T", "w", "i", "t", "t", "e", "r", " ", "A", "P", "I", " ", "e", "r",
      "r", "o", "r", ":", " ">>

Str401 == <<"4", "0", "1">>

Str429 == <<"4", "2", "9">>

StrUnauthorized ==
    <<"U", "n", "a", "u", "t", "h", "o", "r", "i", "z", "e", "d">>

StrTooManyRequests ==
    <<"T", "o", "o", " ", "M", "a", "n", "y", " ", "R", "e", "q", "u", "e",
      "s", "t", "s">>

StrInternalServerError ==
    <<"I", "n", "t", "e", "r", "n", "a", "l", " ", "S", "e", "r", "v", "e",
      "r", " ", "E", "r", "r", "o", "r">>

StrOK == <<"O", "K">>

StrNetworkError ==
    <<"N", "e", "t", "w", "o", "r", "k", " ", "e", "r", "r", "o", "r">>

StrTimeout ==
    <<"t", "i", "m", "e", "o", "u", "t", " ", "o", "f", " ", "4", "2", "9",
      "0", "m", "s", " ", "e", "x", "c", "e", "e", "d", "e", "d">>

StrUnexpectedToken ==
    <<"U", "n", "e", "x", "p", "e", "c", "t", "e", "d", " ", "t", "o", "k",
      "e", "n">>

\* console.error lines of handleError
RawLogLabel == "Twitter API Error:"

AuthDiagnostic ==
    "Authentication failed. Please check your Twitter API credentials."

RateLimitDiagnostic == "Rate limit exceeded. Please try again later."

API_BASE_URL == "https://api.twitter.com/2"

TweetFields == "created_at,author_id,public_metrics,referenced_tweets"

(* ----------------------------- JS values ------------------------------- *)

\* A JavaScript value: kind is its type tag, val its payload (a TLA+ string
\* for an opaque string, a sequence for an array, a record for an object).
Undefined == [kind |-> "undefined", val |-> <<>>]

Null == [kind |-> "null", val |-> <<>>]

JsStr(s) == [kind |-> "str", val |-> s]

JsNum(n) == [kind |-> "num", val |-> n]

JsArr(elems) == [kind |-> "arr", val |-> elems]

JsObj(fields) == [kind |-> "obj", val |-> fields]

\* ToBoolean, as `!x` and `x || y` apply it
Truthy(v) ==
    CASE v.kind \in {"undefined", "null"} -> FALSE
      [] v.kind = "str" -> v.val # ""
      [] v.kind = "num" -> v.val # 0
      [] OTHER -> TRUE

\* the property read v.k throws a TypeError on undefined and null
GetThrows(v) == v.kind \in {"undefined", "null"}

\* the property read v.k where it does not throw; none of the keys read by
\* the client is a built-in property of a string, number or array
Get(v, k) ==
    IF v.kind = "obj" /\ k \in DOMAIN v.val THEN v.val[k] ELSE Undefined

(* ------------------------------ errors --------------------------------- *)

\* A thrown value.  isError: `instanceof Error`; message: its message (for a
\* thrown non-Error value, its text).  id 0 is "no error".
NoError == [id |-> 0, isError |-> FALSE, message |-> <<>>]

NewError(id, msg) == [id |-> id, isError |-> TRUE, message |-> msg]

\* what httpx.fetch may reject with: connection-level Errors and a thrown
\* non-Error value
TransportFaults ==
    { [isError |-> TRUE,  message |-> StrNetworkError],
      [isError |-> TRUE,  message |-> StrTimeout],
      [isError |-> FALSE, message |-> Str401] }

\* what response.json() may reject with
JsonFaults == { [isError |-> TRUE, message |-> StrUnexpectedToken] }

\* texts an error message is put together from
MessageFragments == { Str401, StrUnauthorized, Str429, StrNetworkError }

\* the messages of the values handed to handleError: empty, one fragment,
\* or two fragments separated by a space
ErrorMessages ==
    { <<>> } \cup MessageFragments
    \cup { a \o <<" ">> \o b : a, b \in MessageFragments }

\* the values handed to handleError: Errors and non-Error values
ErrorValues ==
    { [isError |-> b, message |-> m] : b \in BOOLEAN, m \in ErrorMessages }

(* ------------------------------ inputs --------------------------------- *)

Queries == { <<>>, <<" ">>, <<" ", "q", " ">> }

Limits == { -1, 0, 1 }

Tokens == { "tokenA" }

\* what TWITTER_BEARER_TOKEN may be configured as: unset, empty, or a token
ConfiguredTokens == { Undefined, JsStr("") } \cup { JsStr(t) : t \in Tokens }

Statuses == { 401, 429, 500, 4019 }

StatusTexts ==
    { <<>>, StrUnauthorized, StrTooManyRequests, StrInternalServerError }

\* a Response as the client reads it: ok, status, statusText
HttpResponses ==
    { [ok |-> FALSE, status |-> s, statusText |-> t] :
        s \in Statuses, t \in StatusTexts }
    \cup { [ok |-> TRUE, status |-> 200, statusText |-> StrOK] }

NoResponse == [ok |-> FALSE, status |-> 0, statusText |-> <<>>]

(* --------------------------- raw responses ----------------------------- *)

PublicMetrics ==
    JsObj([like_count |-> JsNum(10), retweet_count |-> JsNum(5),
           reply_count |-> JsNum(2), quote_count |-> JsNum(1)])

QuotedRef == JsObj([type |-> JsStr("quoted"), id |-> JsStr("54321")])

\* a record carrying every field, referenced_tweets included
FullTweet ==
    JsObj([id |-> JsStr("12345"), text |-> JsStr("This is a test tweet"),
           created_at |-> JsStr("2023-08-01T12:00:00Z"),
           author_id |-> JsStr("67890"), public_metrics |-> PublicMetrics,
           referenced_tweets |-> JsArr(<<QuotedRef>>)])

\* a record without the optional referenced_tweets
PlainTweet ==
    JsObj([id |-> JsStr("12346"), text |-> JsStr("Another tweet"),
           created_at |-> JsStr("2023-08-01T12:05:00Z"),
           author_id |-> JsStr("67891"), public_metrics |-> PublicMetrics])

\* a partial record
PartialTweet == JsObj([id |-> JsStr("12347")])

\* referenced_tweets present but null
NullRefsTweet == JsObj([id |-> JsStr("12348"), referenced_tweets |-> Null])

\* referenced_tweets present, truthy, and not an array
StrRefsTweet ==
    JsObj([id |-> JsStr("12349"), referenced_tweets |-> JsStr("54321")])

TweetShapes ==
    { FullTweet, PlainTweet, PartialTweet, NullRefsTweet, StrRefsTweet, Null }

DataArrays == UNION { [1..n -> TweetShapes] : n \in 0..MaxData }

EmptyObject == JsObj(<<>>)

WithData(d) == JsObj([data |-> d])

\* the shapes handed to processResponse
RawResponses ==
    { Undefined, Null, EmptyObject, JsArr(<<>>), WithData(Null),
      WithData(JsStr("")), WithData(JsStr("none")), WithData(JsNum(5)),
      WithData(EmptyObject) }
    \cup { WithData(JsArr(a)) : a \in DataArrays }

\* the bodies response.json() resolves with in the fetch lifecycle
FetchBodies ==
    { WithData(JsArr(<<FullTweet, PlainTweet>>)), WithData(JsArr(<<>>)),
      EmptyObject, Null }

(* ------------------------ the client's functions ----------------------- *)

\* ConstructorThrows refusing only an unset credential
ConstructorThrows_OnlyUnset(token) == token.kind = "undefined"

\* the constructor's check: `if (!TWITTER_BEARER_TOKEN) throw`
ConstructorThrows(token) == ~Truthy(token)

\* the constructor's `Bearer ${TWITTER_BEARER_TOKEN}`
BearerHeader(token) == <<"Bearer", token.val>>

\* ValidationError without the trim: only the empty query is refused
ValidationError_NoTrim(query, limit) ==
    IF query = <<>> THEN QueryRequiredMsg
    ELSE IF limit <= 0 THEN LimitPositiveMsg
    ELSE <<>>

\* fetchTweets, the two input checks: the message of the Error thrown, or
\* <<>> when both checks pass
ValidationError(query, limit) ==
    IF query = <<>> \/ Len(Trim(query)) = 0 THEN QueryRequiredMsg
    ELSE IF limit <= 0 THEN LimitPositiveMsg
    ELSE <<>>

\* fetchTweets, the URL and the options handed to httpx.fetch
BuildRequest(authorizationHeader, query, limit) ==
    [ url     |-> [ base   |-> API_BASE_URL,
                    path   |-> "/tweets/search/recent",
                    query  |-> Trim(query),
                    max_results |-> NumToString(limit),
                    fields |-> TweetFields ],
      headers |-> [ Authorization |-> authorizationHeader,
                    ContentType   |-> "application/json" ] ]

\* ApiErrorMessage without the reason phrase
ApiErrorMessage_NoStatusText(status, statusText) ==
    ApiErrorPrefix \o NumToString(status)

\* fetchTweets, the message of the Error thrown for a response that is not ok
ApiErrorMessage(status, statusText) ==
    ApiErrorPrefix \o NumToString(status) \o <<" ">> \o statusText

\* Rethrown with the caught value wrapped in a new Error
Rethrown_Wrapped(e) == [id |-> e.id + 100, isError |-> TRUE, message |-> e.message]

\* fetchTweets, `throw error` in the catch block
Rethrown(e) == e

\* handleError testing for '429' before '401' and 'Unauthorized'
handleError_RateLimitFirst(e) ==
    <<[line |-> RawLogLabel, error |-> e]>>
    \o IF e.isError
       THEN IF Includes(e.message, Str429)
            THEN <<[line |-> RateLimitDiagnostic, error |-> NoError]>>
            ELSE IF Includes(e.message, Str401)
                    \/ Includes(e.message, StrUnauthorized)
                 THEN <<[line |-> AuthDiagnostic, error |-> NoError]>>
                 ELSE <<>>
       ELSE <<>>

\* handleError without the rate-limit branch
handleError_NoRateLimit(e) ==
    <<[line |-> RawLogLabel, error |-> e]>>
    \o IF e.isError
          /\ (Includes(e.message, Str401)
              \/ Includes(e.message, StrUnauthorized))
       THEN <<[line |-> AuthDiagnostic, error |-> NoError]>>
       ELSE <<>>

\* handleError: the console.error lines it emits, in order
handleError(e) ==
    <<[line |-> RawLogLabel, error |-> e]>>
    \o IF e.isError
       THEN IF Includes(e.message, Str401)
               \/ Includes(e.message, StrUnauthorized)
            THEN <<[line |-> AuthDiagnostic, error |-> NoError]>>
            ELSE IF Includes(e.message, Str429)
                 THEN <<[line |-> RateLimitDiagnostic, error |-> NoError]>>
                 ELSE <<>>
       ELSE <<>>

\* NormalizeTweet with created_at and author_id exchanged
NormalizeTweet_SwappedFields(tweet) ==
    JsObj([ id        |-> Get(tweet, "id"),
            text      |-> Get(tweet, "text"),
            createdAt |-> Get(tweet, "author_id"),
            authorId  |-> Get(tweet, "created_at"),
            metrics   |-> Get(tweet, "public_metrics"),
            referencedTweets |->
                IF Truthy(Get(tweet, "referenced_tweets"))
                THEN Get(tweet, "referenced_tweets")
                ELSE JsArr(<<>>) ])

\* NormalizeTweet without the `|| []` default
NormalizeTweet_NoDefault(tweet) ==
    JsObj([ id        |-> Get(tweet, "id"),
            text      |-> Get(tweet, "text"),
            createdAt |-> Get(tweet, "created_at"),
            authorId  |-> Get(tweet, "author_id"),
            metrics   |-> Get(tweet, "public_metrics"),
            referencedTweets |-> Get(tweet, "referenced_tweets") ])

\* processResponse, the arrow function mapped over data
NormalizeTweet(tweet) ==
    JsObj([ id        |-> Get(tweet, "id"),
            text      |-> Get(tweet, "text"),
            createdAt |-> Get(tweet, "created_at"),
            authorId  |-> Get(tweet, "author_id"),
            metrics   |-> Get(tweet, "public_metrics"),
            referencedTweets |->
                IF Truthy(Get(tweet, "referenced_tweets"))
                THEN Get(tweet, "referenced_tweets")
                ELSE JsArr(<<>>) ])

Returned(v) == [called |-> TRUE, threw |-> FALSE, value |-> v]

\* a TypeError escapes the call
Threw == [called |-> TRUE, threw |-> TRUE, value |-> Undefined]

NotCalled == [called |-> FALSE, threw |-> FALSE, value |-> Undefined]

\* processResponse without the check of the data field
processResponse_NoDataGuard(responseData) ==
    IF ~Truthy(responseData)
    THEN Returned(JsArr(<<>>))
    ELSE LET data == Get(responseData, "data") IN
         IF data.kind # "arr"
         THEN Threw
         ELSE IF \E i \in 1..Len(data.val) : GetThrows(data.val[i])
              THEN Threw
              ELSE Returned(JsArr([i \in 1..Len(data.val) |->
                                      NormalizeTweet(data.val[i])]))

\* processResponse: what the call returns, or that it throws
processResponse(responseData) ==
    IF ~Truthy(responseData) \/ ~Truthy(Get(responseData, "data"))
    THEN Returned(JsArr(<<>>))
    ELSE LET data == Get(responseData, "data") IN
         IF data.kind # "arr"
         THEN Threw                      \* data.map is not a function
         ELSE IF \E i \in 1..Len(data.val) : GetThrows(data.val[i])
              THEN Threw                 \* tweet.id of null
              ELSE Returned(JsArr([i \in 1..Len(data.val) |->
                                      NormalizeTweet(data.val[i])]))

\* FetchResult with processResponse applied to the parsed body
FetchResult_Normalized(body) == processResponse(body).value

\* fetchTweets, `return await response.json()`
FetchResult(body) == body

(* ------------------------------- state --------------------------------- *)

VARIABLES
    bearerToken, \* TWITTER_BEARER_TOKEN as configured
    client,      \* none (not constructed), constructed, failed (threw)
    authorizationHeader,  \* the client's readonly field
    pc,          \* per call: idle, requesting, parsing, succeeded, failed
    args,        \* per call: the (query, limit) it was invoked with
    requests,    \* the requests dispatched through httpx.fetch, in order
    response,    \* per call: the Response httpx.fetch resolved with
    body,        \* per call: the value response.json() resolved with
    result,      \* per call: the value the promise resolved with
    error,       \* per call: the value the promise rejected with
    raised,      \* per call: the value thrown inside the try block
    handled,     \* per call: the values passed to handleError, in order
    console,     \* the console.error lines, in order
    nextId,      \* identity of the next thrown value
    prInput,     \* argument of the last processResponse call
    prOutcome,   \* outcome of the last processResponse call
    heCalls      \* the values a caller passed to handleError, in order

vars ==
    <<bearerToken, client, authorizationHeader, pc, args, requests, response, body, result, error,
      raised, handled, console, nextId, prInput, prOutcome, heCalls>>

fetchVars ==
    <<bearerToken, client, authorizationHeader, pc, args, requests, response, body, result, error,
      raised, handled, console, nextId>>

NoArgs == [query |-> <<>>, limit |-> 0]

\* the module is loaded with TWITTER_BEARER_TOKEN as configured; no client
\* has been constructed
Init ==
    /\ bearerToken \in ConfiguredTokens
    /\ client = "none"
    /\ authorizationHeader = <<>>
    /\ pc = [c \in Calls |-> "idle"]
    /\ args = [c \in Calls |-> NoArgs]
    /\ requests = <<>>
    /\ response = [c \in Calls |-> NoResponse]
    /\ body = [c \in Calls |-> Undefined]
    /\ result = [c \in Calls |-> Undefined]
    /\ error = [c \in Calls |-> NoError]
    /\ raised = [c \in Calls |-> NoError]
    /\ handled = [c \in Calls |-> <<>>]
    /\ console = <<>>
    /\ nextId = 1
    /\ prInput = Undefined
    /\ prOutcome = NotCalled
    /\ heCalls = <<>>

\* Dispatch sharing one request between identical in-flight queries
Dispatch_Deduplicated(reqs, c, req) ==
    IF \E i \in DOMAIN reqs : reqs[i].request = req
    THEN reqs
    ELSE Append(reqs, [call |-> c, request |-> req])

\* Dispatch issuing the request a second time
Dispatch_Twice(reqs, c, req) ==
    Append(Append(reqs, [call |-> c, request |-> req]),
           [call |-> c, request |-> req])

\* httpx.fetch is called with the request of call c
Dispatch(reqs, c, req) == Append(reqs, [call |-> c, request |-> req])

\* Catch calling handleError a second time before rethrowing
Catch_HandleTwice(c, e) ==
    /\ raised' = [raised EXCEPT ![c] = e]
    /\ handled' = [handled EXCEPT ![c] = Append(Append(@, e), e)]
    /\ console' = console \o handleError(e) \o handleError(e)
    /\ error' = [error EXCEPT ![c] = Rethrown(e)]
    /\ pc' = [pc EXCEPT ![c] = "failed"]
    /\ nextId' = nextId + 1

\* the catch block of fetchTweets: handleError(error), then throw error
Catch(c, e) ==
    /\ raised' = [raised EXCEPT ![c] = e]
    /\ handled' = [handled EXCEPT ![c] = Append(@, e)]
    /\ console' = console \o handleError(e)
    /\ error' = [error EXCEPT ![c] = Rethrown(e)]
    /\ pc' = [pc EXCEPT ![c] = "failed"]
    /\ nextId' = nextId + 1

\* new TwitterApiClient(): throws when the credential is unset or empty,
\* else sets authorizationHeader
Construct ==
    /\ client = "none"
    /\ IF ConstructorThrows(bearerToken)
       THEN /\ client' = "failed"
            /\ UNCHANGED authorizationHeader
       ELSE /\ client' = "constructed"
            /\ authorizationHeader' = BearerHeader(bearerToken)
    /\ UNCHANGED <<bearerToken, pc, args, requests, response, body, result,
                   error, raised, handled, console, nextId, prInput,
                   prOutcome, heCalls>>

\* fetchTweets(query, limit) up to its first await: the input checks, then
\* either the catch block or the call of httpx.fetch
FetchTweets(c, query, limit) ==
    /\ client = "constructed"
    /\ pc[c] = "idle"
    /\ args' = [args EXCEPT ![c] = [query |-> query, limit |-> limit]]
    /\ IF ValidationError(query, limit) # <<>>
       THEN /\ Catch(c, NewError(nextId, ValidationError(query, limit)))
            /\ UNCHANGED requests
       ELSE /\ requests' =
                Dispatch(requests, c,
                         BuildRequest(authorizationHeader, query, limit))
            /\ pc' = [pc EXCEPT ![c] = "requesting"]
            /\ UNCHANGED <<raised, handled, console, error, nextId>>
    /\ UNCHANGED <<bearerToken, client, authorizationHeader, response, body, result,
                   prInput, prOutcome, heCalls>>

\* httpx.fetch resolves: the ok check, then either the catch block or the
\* call of response.json()
TransportResolve(c, resp) ==
    /\ pc[c] = "requesting"
    /\ response' = [response EXCEPT ![c] = resp]
    /\ IF ~resp.ok
       THEN Catch(c, NewError(nextId,
                              ApiErrorMessage(resp.status, resp.statusText)))
       ELSE /\ pc' = [pc EXCEPT ![c] = "parsing"]
            /\ UNCHANGED <<raised, handled, console, error, nextId>>
    /\ UNCHANGED <<bearerToken, client, authorizationHeader, args, requests, body, result,
                   prInput, prOutcome, heCalls>>

\* httpx.fetch rejects with a value of its own
TransportReject(c, fault) ==
    /\ pc[c] = "requesting"
    /\ Catch(c, [id |-> nextId, isError |-> fault.isError,
                 message |-> fault.message])
    /\ UNCHANGED <<bearerToken, client, authorizationHeader, args, requests, response, body,
                   result, prInput, prOutcome, heCalls>>

\* response.json() resolves with the parsed body
JsonResolve(c, b) ==
    /\ pc[c] = "parsing"
    /\ body' = [body EXCEPT ![c] = b]
    /\ result' = [result EXCEPT ![c] = FetchResult(b)]
    /\ pc' = [pc EXCEPT ![c] = "succeeded"]
    /\ UNCHANGED <<bearerToken, client, authorizationHeader, args, requests, response, error,
                   raised, handled, console, nextId, prInput, prOutcome, heCalls>>

\* response.json() rejects
JsonReject(c, fault) ==
    /\ pc[c] = "parsing"
    /\ Catch(c, [id |-> nextId, isError |-> fault.isError,
                 message |-> fault.message])
    /\ UNCHANGED <<bearerToken, client, authorizationHeader, args, requests, response, body,
                   result, prInput, prOutcome, heCalls>>

\* a caller invokes processResponse(responseData)
ProcessResponse(responseData) ==
    /\ client = "constructed"
    /\ prInput' = responseData
    /\ prOutcome' = processResponse(responseData)
    /\ UNCHANGED <<fetchVars, heCalls>>

\* a caller invokes handleError(error) with a value of its own
HandleError(v) ==
    /\ client = "constructed"
    /\ Len(heCalls) < MaxHandleCalls
    /\ heCalls' = Append(heCalls, [id |-> nextId, isError |-> v.isError,
                                   message |-> v.message])
    /\ console' = console \o handleError([id |-> nextId,
                                          isError |-> v.isError,
                                          message |-> v.message])
    /\ nextId' = nextId + 1
    /\ UNCHANGED <<bearerToken, client, authorizationHeader, pc, args,
                   requests, response, body, result, error, raised, handled,
                   prInput, prOutcome>>

Next ==
    \/ Construct
    \/ \E c \in Calls, q \in Queries, l \in Limits : FetchTweets(c, q, l)
    \/ \E c \in Calls, r \in HttpResponses : TransportResolve(c, r)
    \/ \E c \in Calls, f \in TransportFaults : TransportReject(c, f)
    \/ \E c \in Calls, b \in FetchBodies : JsonResolve(c, b)
    \/ \E c \in Calls, f \in JsonFaults : JsonReject(c, f)

\* the fetch lifecycle of NumCalls calls on one client
Spec == Init /\ [][Next]_vars

NextNormalize == Construct \/ \E r \in RawResponses : ProcessResponse(r)

\* processResponse applied to every raw response shape
SpecNormalize == Init /\ [][NextNormalize]_vars

NextHandleError == Construct \/ \E v \in ErrorValues : HandleError(v)

\* handleError applied to every error value, MaxHandleCalls times in a row
SpecHandleError == Init /\ [][NextHandleError]_vars

(* ------------------------- reading the state --------------------------- *)

\* the requests call c has dispatched
RequestsOf(c) == { i \in DOMAIN requests : requests[i].call = c }

\* the query is empty or consists of whitespace only
BlankQuery(q) == \A i \in DOMAIN q : q[i] \in Whitespace

\* call c has been invoked with arguments the input checks refuse
InvalidCall(c) ==
    pc[c] # "idle" /\ (BlankQuery(args[c].query) \/ args[c].limit <= 0)

\* call c has been invoked with arguments the input checks accept
ValidCall(c) ==
    pc[c] # "idle" /\ ~BlankQuery(args[c].query) /\ args[c].limit > 0

\* how call c failed
FailedValidation(c) == pc[c] = "failed" /\ RequestsOf(c) = {}

FailedHttp(c) ==
    pc[c] = "failed" /\ response[c] # NoResponse /\ ~response[c].ok

FailedTransport(c) ==
    pc[c] = "failed" /\ RequestsOf(c) # {} /\ response[c] = NoResponse

FailedParse(c) ==
    pc[c] = "failed" /\ response[c] # NoResponse /\ response[c].ok

\* the console lines that handleError emitted for the value v: its raw log
\* entry and the diagnostic that directly follows it, if any
LinesFor(v) ==
    LET i == CHOOSE j \in DOMAIN console :
                 console[j].line = RawLogLabel /\ console[j].error = v
    IN  <<console[i].line>>
        \o IF i < Len(console) /\ console[i + 1].line # RawLogLabel
           THEN <<console[i + 1].line>>
           ELSE <<>>

Logged(v) ==
    \E j \in DOMAIN console :
        console[j].line = RawLogLabel /\ console[j].error = v

\* decimal rendering of the statuses, written out
StatusDecimal(s) ==
    CASE s = 401  -> <<"4", "0", "1">>
      [] s = 429  -> <<"4", "2", "9">>
      [] s = 500  -> <<"5", "0", "0">>
      [] s = 4019 -> <<"4", "0", "1", "9">>

(* ------------------------------- claims -------------------------------- *)

\* C1: a call whose query is empty or whitespace-only, or whose limit is
\* <= 0, has failed with one of the two validation errors, and no request
\* of that call is in the transport's dispatch record, in any state.
C1_ValidationBeforeDispatch ==
    \A c \in Calls :
        InvalidCall(c) =>
            /\ pc[c] = "failed"
            /\ error[c].isError
            /\ error[c].message \in {QueryRequiredMsg, LimitPositiveMsg}
            /\ RequestsOf(c) = {}

\* C1 witness: a whitespace-only query and a non-positive limit have both
\* been refused while nothing was dispatched
C1_Witness ==
    \E c, d \in Calls :
        /\ c # d
        /\ pc[c] = "failed" /\ args[c].query = <<" ">>
        /\ pc[d] = "failed" /\ args[d].query = <<" ", "q", " ">>
        /\ args[d].limit = 0
        /\ requests = <<>>

\* C2: a call that received a response that is not ok rejects with an Error
\* whose message is "Twitter API error: " followed by the decimal status, one
\* space, and the response's statusText.
C2_ApiErrorMessageFormat ==
    \A c \in Calls :
        FailedHttp(c) =>
            /\ error[c].isError
            /\ error[c].message =
                   ApiErrorPrefix \o StatusDecimal(response[c].status)
                   \o <<" ">> \o response[c].statusText

\* C2 witness: a 429 "Too Many Requests" response has failed a call
C2_Witness ==
    \E c \in Calls :
        /\ FailedHttp(c)
        /\ response[c].status = 429
        /\ response[c].statusText = StrTooManyRequests

\* C3: a failed call has passed exactly the value raised in its try block to
\* handleError, that value is in the console's raw log, and the value the
\* caller observes is that same value, identity included.
C3_HandleThenRethrowSame ==
    \A c \in Calls :
        pc[c] = "failed" =>
            /\ raised[c] # NoError
            /\ handled[c] = <<raised[c]>>
            /\ Logged(raised[c])
            /\ error[c] = raised[c]

\* C3 witness: one call failed by a transport rejection and another by a
\* body-parse failure
C3_Witness ==
    \E c, d \in Calls :
        /\ FailedTransport(c) /\ error[c].message = StrNetworkError
        /\ FailedParse(d)

DataOf(b) ==
    IF b.kind = "obj" /\ "data" \in DOMAIN b.val /\ b.val.data.kind = "arr"
    THEN b.val.data.val
    ELSE <<>>

\* the post the tests expect for one record
ExpectedPost(t) ==
    JsObj([ id        |-> Get(t, "id"),
            text      |-> Get(t, "text"),
            createdAt |-> Get(t, "created_at"),
            authorId  |-> Get(t, "author_id"),
            metrics   |-> Get(t, "public_metrics"),
            referencedTweets |->
                IF "referenced_tweets" \in DOMAIN t.val
                THEN t.val.referenced_tweets
                ELSE JsArr(<<>>) ])

\* C5: a succeeded call resolved with the array of normalized posts, one per
\* record of the body's data in order, and the empty array when data is
\* empty or missing.
C5_NormalizedReturned ==
    \A c \in Calls :
        pc[c] = "succeeded" =>
            result[c] = JsArr([i \in 1..Len(DataOf(body[c])) |->
                                  ExpectedPost(DataOf(body[c])[i])])

\* C6: a call has dispatched at most one request, and exactly one once it
\* has been invoked with arguments that pass validation, whatever the
\* outcome of that request.
C6_ExactlyOneDispatch ==
    /\ Len(requests) = Cardinality({ requests[i].call : i \in DOMAIN requests })
    /\ \A c \in Calls :
        /\ Cardinality(RequestsOf(c)) <= 1
        /\ ValidCall(c) => Cardinality(RequestsOf(c)) = 1

\* C6 witness: every kind of failure after the dispatch has happened once
\* and the dispatch record still holds one request per call
C6_Witness ==
    \E c, d \in Calls :
        /\ FailedTransport(c)
        /\ FailedHttp(d)
        /\ Len(requests) = 2

C8_NoDiagnosticOtherwise ==
    \A c \in Calls :
        (pc[c] = "failed"
         /\ ~(FailedHttp(c) /\ response[c].status \in {401, 429})) =>
            /\ Logged(raised[c])
            /\ LinesFor(raised[c]) = <<RawLogLabel>>

\* C9: every call of processResponse returns an array and does not throw.
C9_ProcessResponseTotal ==
    prOutcome.called =>
        /\ ~prOutcome.threw
        /\ prOutcome.value.kind = "arr"

\* the raw response is absent, or has no data field, or an absent one
NoData(r) ==
    \/ r.kind \in {"undefined", "null"}
    \/ r.kind # "obj"
    \/ "data" \notin DOMAIN r.val
    \/ r.val.data.kind \in {"undefined", "null"}

\* the raw response has a data array without entries
EmptyData(r) ==
    /\ r.kind = "obj"
    /\ "data" \in DOMAIN r.val
    /\ r.val.data = JsArr(<<>>)

\* C10: processResponse called with an absent raw response, or one without
\* a data field, or one whose data is an empty array, returns the empty
\* array and does not throw.
C10_EmptyForNoData ==
    (prOutcome.called /\ (NoData(prInput) \/ EmptyData(prInput))) =>
        prOutcome = Returned(JsArr(<<>>))

\* C10 witness: processResponse has been called on an object without data
C10_Witness == prOutcome.called /\ prInput = EmptyObject


\* the raw response carries a data array whose entries are all records
RecordData(r) ==
    /\ r.kind = "obj"
    /\ "data" \in DOMAIN r.val
    /\ r.val.data.kind = "arr"
    /\ \A i \in DOMAIN r.val.data.val : r.val.data.val[i].kind = "obj"

\* the field k of the record t, undefined when the record has none
FieldOf(t, k) == IF k \in DOMAIN t.val THEN t.val[k] ELSE Undefined

\* C11: processResponse called on a raw response whose data is a sequence of
\* records returns a sequence of the same length; entry i carries record
\* i's id, text, created_at, author_id and public_metrics unchanged as id,
\* text, createdAt, authorId and metrics, and equal records give equal
\* entries wherever they stand.
C11_OrderPreservingFieldCopy ==
    (prOutcome.called /\ RecordData(prInput)) =>
        LET data == prInput.val.data.val
            out  == prOutcome.value.val
        IN  /\ ~prOutcome.threw
            /\ prOutcome.value.kind = "arr"
            /\ Len(out) = Len(data)
            /\ \A i \in DOMAIN data :
                /\ out[i].kind = "obj"
                /\ out[i].val.id = FieldOf(data[i], "id")
                /\ out[i].val.text = FieldOf(data[i], "text")
                /\ out[i].val.createdAt = FieldOf(data[i], "created_at")
                /\ out[i].val.authorId = FieldOf(data[i], "author_id")
                /\ out[i].val.metrics = FieldOf(data[i], "public_metrics")
            /\ \A i, j \in DOMAIN data :
                data[i] = data[j] => out[i] = out[j]

\* C11 witness: processResponse has been called on three distinct records
C11_Witness ==
    /\ prOutcome.called
    /\ prInput = WithData(JsArr(<<PlainTweet, FullTweet, PartialTweet>>))

\* the record's referenced_tweets is a sequence
HasRefs(t) ==
    "referenced_tweets" \in DOMAIN t.val /\ t.val.referenced_tweets.kind = "arr"

\* the record has no referenced_tweets, or a null one
LacksRefs(t) ==
    \/ "referenced_tweets" \notin DOMAIN t.val
    \/ t.val.referenced_tweets.kind \in {"undefined", "null"}

NonEmptyCredential == bearerToken.kind = "str" /\ bearerToken.val # ""

\* C13: construction with an unset or empty credential has failed; a
\* constructed client was built with a non-empty credential, and every
\* dispatched request carries Authorization: Bearer <that credential>.
C13_CredentialRequired ==
    /\ (client # "none" /\ ~NonEmptyCredential) => client = "failed"
    /\ client = "constructed" => NonEmptyCredential
    /\ requests # <<>> => client = "constructed"
    /\ \A i \in DOMAIN requests :
        requests[i].request.headers.Authorization
            = <<"Bearer", bearerToken.val>>

\* C13 witness: both calls have dispatched their request
C13_Witness == Len(requests) = NumCalls /\ client = "constructed"


\* the diagnostic lines owed to the value v: the authentication one for an
\* Error naming 401 or Unauthorized, else the rate-limit one for an Error
\* naming 429, else none
DiagnosticsOwed(v) ==
    IF v.isError
       /\ (Includes(v.message, Str401) \/ Includes(v.message, StrUnauthorized))
    THEN <<AuthDiagnostic>>
    ELSE IF v.isError /\ Includes(v.message, Str429)
         THEN <<RateLimitDiagnostic>>
         ELSE <<>>

\* C14: after any number of handleError calls the console holds, for each
\* value passed, exactly one raw log entry carrying that value, followed by
\* at most one diagnostic: the authentication one when the message matches
\* the 401/Unauthorized form (also when it matches the 429 form too), the
\* rate-limit one when it matches only the 429 form, none for any other
\* message and for a non-Error value; nothing else is written.
C14_HandleErrorObservational ==
    /\ Cardinality({ j \in DOMAIN console : console[j].line = RawLogLabel })
           = Len(heCalls)
    /\ \A k \in DOMAIN heCalls :
        /\ Cardinality({ j \in DOMAIN console :
                           console[j].error = heCalls[k] }) = 1
        /\ LinesFor(heCalls[k])
               = <<RawLogLabel>> \o DiagnosticsOwed(heCalls[k])
    /\ \A j \in DOMAIN console :
        console[j].line # RawLogLabel =>
            j > 1 /\ console[j - 1].line = RawLogLabel

\* C14 witness: handleError has been called with an Error matching both the
\* 429 and the Unauthorized form, then with a non-Error value naming 401
C14_Witness ==
    /\ Len(heCalls) = 2
    /\ heCalls[1].isError
    /\ heCalls[1].message = Str429 \o <<" ">> \o StrUnauthorized
    /\ ~heCalls[2].isError
    /\ heCalls[2].message = Str401


\* everything the model holds for call c alone
CallState(c) ==
    <<pc[c], args[c], response[c], body[c], result[c], error[c], raised[c],
      handled[c]>>

\* a thrown value without its identity
Content(v) == [isError |-> v.isError, message |-> v.message]

\* what the transport has answered call c so far: the response, the parsed
\* body, and the value httpx.fetch or response.json() rejected with
TransportAnswer(c) ==
    <<response[c], body[c],
      IF FailedTransport(c) \/ FailedParse(c)
      THEN <<Content(raised[c])>> ELSE <<>> >>

\* the requests call c has dispatched, without their place in the record
OwnRequests(c) == { requests[i].request : i \in RequestsOf(c) }

\* calls c and d have come to the same outcome: position, dispatched
\* requests, result, error, values handed to handleError, and console lines
\* written for them
SameOutcome(c, d) ==
    /\ pc[c] = pc[d]
    /\ result[c] = result[d]
    /\ Content(error[c]) = Content(error[d])
    /\ Len(handled[c]) = Len(handled[d])
    /\ \A k \in DOMAIN handled[c] :
        Content(handled[c][k]) = Content(handled[d][k])
    /\ OwnRequests(c) = OwnRequests(d)
    /\ Cardinality(RequestsOf(c)) = Cardinality(RequestsOf(d))
    /\ Logged(raised[c]) = Logged(raised[d])
    /\ Logged(raised[c]) => LinesFor(raised[c]) = LinesFor(raised[d])

\* calls with the same arguments and the same transport answer have come
\* to the same outcome, and the request of a call is built from its own
\* arguments and the client's header
Independent ==
    /\ \A c, d \in Calls :
        (c < d /\ pc[c] # "idle" /\ pc[d] # "idle" /\ args[c] = args[d]
         /\ TransportAnswer(c) = TransportAnswer(d)) => SameOutcome(c, d)
    /\ \A c \in Calls : \A i \in RequestsOf(c) :
        /\ requests[i].request.url.query = Trim(args[c].query)
        /\ requests[i].request.url.max_results = NumToString(args[c].limit)
        /\ requests[i].request.headers.Authorization = authorizationHeader

\* a step leaves the constructed client's header and the credential alone
HeaderFrozen ==
    /\ client = "constructed" =>
           (client' = client /\ authorizationHeader' = authorizationHeader)
    /\ bearerToken' = bearerToken

\* a step changes the state of at most one call, keeps every request already
\* dispatched and every console line already written
OtherCallsUntouched ==
    /\ \A c, d \in Calls :
        c # d => (CallState(c)' = CallState(c) \/ CallState(d)' = CallState(d))
    /\ Len(requests') >= Len(requests)
    /\ SubSeq(requests', 1, Len(requests)) = requests
    /\ Len(console') >= Len(console)
    /\ SubSeq(console', 1, Len(console)) = console

\* C15: in every interleaving of the calls, a step of one call changes
\* nothing of another call, the header of the constructed client never
\* changes, and each call's request, result, error and log lines depend on
\* its own arguments and its own transport answer only.
C15_CallsIndependent ==
    [][HeaderFrozen /\ OtherCallsUntouched]_vars /\ []Independent

\* C15 witness: two calls with the same arguments were both answered 429
\* "Too Many Requests", the later-invoked one first
C15_Witness ==
    \E c, d \in Calls :
        /\ c # d
        /\ FailedHttp(c) /\ FailedHttp(d)
        /\ args[c] = args[d]
        /\ response[c] = response[d]
        /\ response[c].status = 429
        /\ response[c].statusText = StrTooManyRequests
        /\ \E i, j \in DOMAIN requests :
            /\ i < j
            /\ requests[i].call = c /\ requests[j].call = d
        /\ error[d].id < error[c].id


\* the lifecycle phase of call c.  Validating is the synchronous stretch of
\* fetchTweets between the invocation and its first await, passed within
\* the FetchTweets step; Requesting lasts while the call awaits the
\* transport, for the response and then for its body.
Phase(c) ==
    CASE pc[c] = "idle" -> "Idle"
      [] pc[c] \in {"requesting", "parsing"} -> "Requesting"
      [] pc[c] = "succeeded" -> "Succeeded"
      [] pc[c] = "failed" -> "Failed"

\* the moves of a call: out of Idle through validation into Requesting or
\* Failed, from the response on to the body, and out of Requesting into
\* Succeeded or Failed
LifecycleMoves ==
    { <<"idle", "requesting">>, <<"idle", "failed">>,
      <<"requesting", "parsing">>, <<"requesting", "failed">>,
      <<"parsing", "succeeded">>, <<"parsing", "failed">> }

\* the transport has answered call c for good: it rejected, it returned a
\* response that is not ok, or the body of an ok response was read or failed
\* to be read
TransportDone(c) ==
    \/ handled[c] # <<>> /\ RequestsOf(c) # {}
    \/ response[c] # NoResponse /\ ~response[c].ok
    \/ response[c] # NoResponse /\ response[c].ok /\ body[c] # Undefined

\* C16: a call moves only along Idle -> (Validating) -> Requesting ->
\* Succeeded | Failed and never re-enters Requesting or leaves Succeeded or
\* Failed; once the transport has answered or rejected, the call is in
\* exactly one of Succeeded and Failed; handleError has been invoked exactly
\* once for a Failed call and never for any other.
C16_SingleShotLifecycle ==
    /\ [][\A c \in Calls :
            /\ pc'[c] # pc[c] => <<pc[c], pc'[c]>> \in LifecycleMoves
            /\ Phase(c)' = "Requesting" => Phase(c) \in {"Idle", "Requesting"}
            /\ Phase(c) # "Idle" => RequestsOf(c)' = RequestsOf(c)
         ]_vars
    /\ [](\A c \in Calls :
            /\ TransportDone(c) => Phase(c) \in {"Succeeded", "Failed"}
            /\ Phase(c) = "Succeeded" =>
                   /\ handled[c] = <<>> /\ error[c] = NoError
                   /\ ~Logged(raised[c])
            /\ Phase(c) = "Failed" =>
                   /\ Len(handled[c]) = 1 /\ result[c] = Undefined
                   /\ Cardinality({ j \in DOMAIN console :
                                      console[j].error = raised[c] }) = 1
            /\ Phase(c) \in {"Idle", "Requesting"} => handled[c] = <<>>)

\* C16 witness: one call ended Succeeded and another ended Failed after the
\* transport had returned an ok response
C16_Witness ==
    \E c, d \in Calls :
        /\ pc[c] = "succeeded" /\ body[c] = EmptyObject
        /\ FailedParse(d)

====
